---------------------------- MODULE Spec2Model ----------------------------
(*************************************************************************)
(* The NTCIP 1203 dialogs of dialogs/controlldms.go (ActivatingMessage,  *)
(* DefiningMessage, RetrievingMessage) and the GetSingleOID helper, as a *)
(* state machine: one call of one dialog by a management station against *)
(* one sign controller.  Every dms.Connect, dms.Get and dms.Set is one   *)
(* action; the controller's answer is its input.                         *)
(*************************************************************************)
EXTENDS Integers, Sequences, FiniteSets, TLC

(* ------------------------------ bounds ------------------------------- *)
\* Integer payloads (priority, beacon, pixel service, short error status)
\* range over 0..MaxVal.
MaxVal == 1

(* ------------------------ program constants -------------------------- *)
\* dmsMessageStatus values used by the dialogs: ntcip.Modifying.Int(),
\* ntcip.Valid.Int(), ntcip.ModifyReq.Int(), ntcip.ValidateReq.Int().
Modifying == 2
Valid == 4
ModifyReq == 6
ValidateReq == 7
\* other values a controller reports: validating, error
OtherStatuses == {3, 5}
\* timeout := 10
PollBudget == 10

(* ---------------------- values on the transport ---------------------- *)
\* A gosnmp.SnmpPDU Value is an interface{}: nil, an int or a []uint8.
NilV == [t |-> "nil", v |-> 0]
IntV(i) == [t |-> "int", v |-> i]
BytesV(s) == [t |-> "bytes", v |-> s]
IsInt(x) == x.t = "int"
IsBytes(x) == x.t = "bytes"
\* history value: nothing read yet
NoV == [t |-> "none", v |-> 0]

\* (messageMemoryType, messageNumber): changeable(3) messages 1 and 2
Slots == {<<3, 1>>, <<3, 2>>}
\* MULTI strings and owner addresses are opaque texts: two distinct ones
Strs == {1, 2}
Ints == 0..MaxVal

\* Identifier with the two indices handed over in the wrong order
IdentifierSwapped(obj, slot) == [obj |-> obj, slot |-> <<slot[2], slot[1]>>]

\* ntcip.<Object>.Identifier(messageMemoryType, messageNumber)
Identifier(obj, slot) == [obj |-> obj, slot |-> slot]
\* an identifier the request did not ask for
OtherOid == [obj |-> "other", slot |-> <<0, 0>>]

\* What the controller may answer for one object: a value of the declared
\* type or an empty value (the case GetSingleOID retries on) and, for the
\* objects other than the status, a value of another type.
ReplyValues(obj) ==
    IF obj = "dmsMessageStatus"
    THEN {IntV(s) : s \in {Modifying, Valid} \cup OtherStatuses} \cup {NilV}
    ELSE IF obj \in {"dmsMessageMultiString", "dmsMessageOwner"}
    THEN {BytesV(s) : s \in Strs} \cup {NilV, IntV(0)}
    ELSE {IntV(i) : i \in Ints} \cup {NilV, BytesV(1)}

\* gosnmp.SnmpPacket.Error of a Set response
SetReplies == {"err", "NoError", "GenErr"}

(* ------------------------------ state -------------------------------- *)
VARIABLES
    pc,        \* position of the call
    args,      \* the call's arguments
    dev,       \* the controller's message table, as last written
    ops,       \* the requests the dialog put on the transport, in order
    retries,   \* second dms.Get requests made inside GetSingleOID
    sleeps,    \* time.Sleep calls made
    result,    \* DefiningMessage: result.Value
    timeout,   \* DefiningMessage: timeout
    outcome,   \* what the call returned
    gso,       \* GetSingleOID frame: oid asked, where to return
    gres,      \* GetSingleOID's (result, err)
    act,       \* ActivatingMessage locals
    rres,      \* RetrievingMessage result
    hist       \* observations of the run, for the properties

VARIABLES
    tt,        \* the case of TestEncodeActivateMessageCode being run
    got        \* what EncodeActivateMessageCode returned for it

VARIABLES
    calls,     \* two calls running at once, each with its own locals
    table      \* the message table of the controller they talk to

\* the variables of one call on its own
single == <<pc, args, dev, ops, retries, sleeps, result, timeout, outcome,
            gso, gres, act, rres, hist>>

\* the variables one call on its own does not touch
others == <<tt, got, calls, table>>

vars == <<single, others>>

NoArgs == [dialog |-> "none", slot |-> <<0, 0>>, multi |-> 0, owner |-> 0,
           priority |-> 0, beacon |-> 0, pixel |-> 0, duration |-> 0]

EmptyMessage == [status |-> 1, multi |-> 0, owner |-> 0, priority |-> 0,
                 beacon |-> 0, pixel |-> 0]

NoOutcome == [kind |-> "none", msg |-> "", list |-> <<>>]
Success == [kind |-> "nil", msg |-> "", list |-> <<>>]
Err(m) == [kind |-> "error", msg |-> m, list |-> <<>>]
ErrList(m, l) == [kind |-> "error", msg |-> m, list |-> l]
\* an unchecked type assertion on a value of another type
Panic == [kind |-> "panic", msg |-> "interface conversion", list |-> <<>>]

NoList == [set |-> FALSE, list |-> <<>>]
NoRead == [set |-> FALSE, val |-> NilV, err |-> "nil"]
NoResult == [multi |-> 0, owner |-> 0, priority |-> 0, status |-> 0,
             beacon |-> 0, pixel |-> 0]
DevInit == [table |-> [s \in Slots |-> EmptyMessage], activate |-> <<>>]

\* the latest request that ended in a transport error
NoTErr == [set |-> FALSE, ops |-> 0, retries |-> 0, obj |-> "none",
           optional |-> FALSE]

NoTest == [multiString |-> 0, beacon |-> 0, pixelService |-> 0,
           messageType |-> 0, duration |-> 0, priority |-> 0,
           messageNumber |-> 0, requestIPAddress |-> <<>>]
NotRun == [run |-> FALSE, err |-> FALSE, code |-> <<>>]

Procs == {1, 2}
NoCalls ==
    [p \in Procs |->
        [dialog |-> "none", pc |-> "idle", args |-> NoArgs, result |-> 0,
         timeout |-> 0, outcome |-> NoOutcome, rres |-> NoResult]]

NoSnap == [ops |-> 0, retries |-> 0, sleeps |-> 0, set |-> FALSE]
Snap == [ops |-> Len(ops), retries |-> retries, sleeps |-> sleeps,
         set |-> TRUE]
SnapAfter == [ops |-> Len(ops'), retries |-> retries', sleeps |-> sleeps',
              set |-> TRUE]

\* no call has been made
NoCall ==
    /\ pc = "idle"
    /\ args = NoArgs
    /\ dev = DevInit
    /\ ops = <<>>
    /\ retries = 0
    /\ sleeps = 0
    /\ result = NilV
    /\ timeout = 0
    /\ outcome = NoOutcome
    /\ gso = [oid |-> OtherOid, ret |-> "none"]
    /\ gres = [val |-> NilV, err |-> "nil"]
    /\ act = [multi |-> 0, beacon |-> 0, pixel |-> 0, code |-> <<>>,
              encoded |-> FALSE]
    /\ rres = NoResult
    /\ hist = [opErr |-> NoSnap,
               step2 |-> NoV, mismatch |-> NoSnap,
               pollReads |-> 0, pollValid |-> NoSnap, pollErr |-> NoSnap,
               lacks |-> FALSE, setReply |-> "none", short |-> NoList,
               batch |-> NoResult, beaconRead |-> NoRead,
               pixelRead |-> NoRead, terr |-> NoTErr, first |-> "none",
               encode |-> "none"]

Init ==
    /\ NoCall
    /\ tt = NoTest
    /\ got = NotRun
    /\ calls = NoCalls
    /\ table = [s \in Slots |-> EmptyMessage]

(* ------------------------- transport requests ------------------------ *)
GetOp(oid) == [k |-> "Get", obj |-> oid.obj, slot |-> oid.slot, val |-> 0]
SetOp(oid, v) == [k |-> "Set", obj |-> oid.obj, slot |-> oid.slot, val |-> v]

\* dms.Get of one oid: a transport error, or one variable whose name is the
\* oid asked or another one.
GetReplies(oid) ==
    {[err |-> TRUE, name |-> oid, val |-> NilV]}
        \cup {[err |-> FALSE, name |-> n, val |-> v] :
                 n \in {oid, OtherOid}, v \in ReplyValues(oid.obj)}

\* The controller stores what a Set carries when it answers noError, stores
\* nothing when it answers an error status, and may or may not have stored
\* it when the transport failed.
SetAnswers == {a \in [reply : SetReplies, applied : BOOLEAN] :
                  /\ a.reply = "NoError" => a.applied
                  /\ a.reply = "GenErr" => ~a.applied}

Store(d, slot, fields) ==
    [d EXCEPT !.table[slot] = fields @@ @]

Done(o) == pc' = "done" /\ outcome' = o

\* hist with a transport error of the request just made recorded
TErr(h, obj, optional, sent, again) ==
    [h EXCEPT !.terr = [set |-> TRUE, ops |-> Len(ops) + sent,
                        retries |-> retries + again, obj |-> obj,
                        optional |-> optional]]

\* the reads of RetrievingMessage whose error is assigned to _
OptionalRead(oid) ==
    /\ args.dialog = "RetrievingMessage"
    /\ oid.obj \in {"dmsMessageBeacon", "dmsMessagePixelService"}

(* --------------------------- GetSingleOID ---------------------------- *)
\* if !strings.Contains(packageResult.Variables[0].Name, oid)
GetSingleOIDReturn(r, oid) ==
    IF r.name # oid
    THEN [val |-> NilV, err |-> "noSuchName"]
    ELSE [val |-> r.val, err |-> "nil"]

\* the caller's call: ntcip.GetSingleOID(dms, oid)
CallGetSingleOID(oid, ret) ==
    /\ pc' = "gso_get"
    /\ gso' = [oid |-> oid, ret |-> ret]

\* what the first dms.Get of GetSingleOID answered
FirstAnswer(r) == IF r.err THEN "err" ELSE IF r.val = NilV THEN "nil"
                  ELSE "value"

\* GetSingleOID_Get with the second dms.Get made after an error as well
GetSingleOID_GetRetriesOnError ==
    /\ pc = "gso_get"
    /\ \E r \in GetReplies(gso.oid) :
          /\ ops' = Append(ops, GetOp(gso.oid))
          /\ hist' = IF r.err
                     THEN TErr([hist EXCEPT !.first = FirstAnswer(r)],
                               gso.oid.obj, OptionalRead(gso.oid), 1, 0)
                     ELSE [hist EXCEPT !.first = FirstAnswer(r)]
          /\ IF r.err \/ r.val = NilV
             THEN gres' = gres /\ pc' = "gso_retry"
             ELSE gres' = GetSingleOIDReturn(r, gso.oid) /\ pc' = gso.ret
    /\ UNCHANGED others
    /\ UNCHANGED <<args, dev, retries, sleeps, result, timeout, outcome,
                   gso, act, rres>>

\* packageResult, err := dms.Get([]string{oid})
GetSingleOID_Get ==
    /\ pc = "gso_get"
    /\ \E r \in GetReplies(gso.oid) :
          /\ ops' = Append(ops, GetOp(gso.oid))
          /\ hist' = IF r.err
                     THEN TErr([hist EXCEPT !.first = FirstAnswer(r)],
                               gso.oid.obj, OptionalRead(gso.oid), 1, 0)
                     ELSE [hist EXCEPT !.first = FirstAnswer(r)]
          /\ IF r.err
             THEN gres' = [val |-> NilV, err |-> "transport"] /\ pc' = gso.ret
             ELSE IF r.val = NilV
             THEN gres' = gres /\ pc' = "gso_retry"
             ELSE gres' = GetSingleOIDReturn(r, gso.oid) /\ pc' = gso.ret
    /\ UNCHANGED others
    /\ UNCHANGED <<args, dev, retries, sleeps, result, timeout, outcome,
                   gso, act, rres>>

\* the second dms.Get, made when the first value was nil
GetSingleOID_Retry ==
    /\ pc = "gso_retry"
    /\ \E r \in GetReplies(gso.oid) :
          /\ retries' = retries + 1
          /\ hist' = IF r.err
                     THEN TErr(hist, gso.oid.obj, OptionalRead(gso.oid), 0, 1)
                     ELSE hist
          /\ gres' = IF r.err THEN [val |-> NilV, err |-> "transport"]
                     ELSE GetSingleOIDReturn(r, gso.oid)
          /\ pc' = gso.ret
    /\ UNCHANGED others
    /\ UNCHANGED <<args, dev, ops, sleeps, result, timeout, outcome, gso,
                   act, rres>>

(* -------------------------- DefiningMessage -------------------------- *)
DefiningArgs ==
    {[dialog |-> "DefiningMessage", slot |-> s, multi |-> 1, owner |-> 1,
      priority |-> 1, beacon |-> b, pixel |-> x, duration |-> 0] :
        s \in Slots, b \in Ints, x \in Ints}

DefiningMessage_Call ==
    /\ pc = "idle"
    /\ \E a \in DefiningArgs : args' = a
    /\ pc' = "d_connect"
    /\ UNCHANGED others
    /\ UNCHANGED <<dev, ops, retries, sleeps, result, timeout, outcome, gso,
                   gres, act, rres, hist>>

\* if err := dms.Connect(); err != nil { return err }
DefiningMessage_Connect ==
    /\ pc = "d_connect"
    /\ \E ok \in BOOLEAN :
          IF ok THEN pc' = "d_setModifyReq" /\ outcome' = outcome /\ hist' = hist
          ELSE Done(Err("connect")) /\ hist' = TErr(hist, "connect", FALSE, 0, 0)
    /\ UNCHANGED others
    /\ UNCHANGED <<args, dev, ops, retries, sleeps, result, timeout, gso,
                   gres, act, rres>>

\* DefiningSetAborts with the response's error status tested as well
DefiningSetAbortsOnStatus(reply) == reply # "NoError"

\* _, err = dms.Set(...); if err != nil: the response packet is discarded
DefiningSetAborts(reply) == reply = "err"

\* DefiningSet with the `if err != nil { return ... }` left out
DefiningSetNoReturn(oid, v, fields, errmsg, next) ==
    \E a \in SetAnswers :
        /\ ops' = Append(ops, SetOp(oid, v))
        /\ dev' = IF a.applied THEN Store(dev, args.slot, fields) ELSE dev
        /\ UNCHANGED <<retries, sleeps>>
        /\ outcome' = outcome
        /\ hist' = IF a.reply = "err"
                   THEN TErr([hist EXCEPT !.opErr = SnapAfter,
                                          !.setReply = a.reply],
                             oid.obj, FALSE, 1, 0)
                   ELSE [hist EXCEPT !.setReply = a.reply]
        /\ next

\* One dms.Set of DefiningMessage: the request goes out, and only a
\* transport error ends the call; the response packet is discarded.
DefiningSet(oid, v, fields, errmsg, next) ==
    \E a \in SetAnswers :
        /\ ops' = Append(ops, SetOp(oid, v))
        /\ dev' = IF a.applied THEN Store(dev, args.slot, fields) ELSE dev
        /\ UNCHANGED <<retries, sleeps>>
        /\ IF DefiningSetAborts(a.reply)
           THEN /\ Done(Err(errmsg))
                /\ gso' = gso
                /\ hist' = TErr([hist EXCEPT !.opErr = SnapAfter,
                                             !.setReply = a.reply],
                                oid.obj, FALSE, 1, 0)
           ELSE /\ outcome' = outcome
                /\ hist' = [hist EXCEPT !.setReply = a.reply]
                /\ next

\* SET dmsMessageStatus.x.y to 'modifyReq', then call GetSingleOID
DefiningMessage_SetModifyReq ==
    /\ pc = "d_setModifyReq"
    /\ DefiningSet(Identifier("dmsMessageStatus", args.slot), ModifyReq,
                   [status |-> ModifyReq], "set message status failed",
                   CallGetSingleOID(Identifier("dmsMessageStatus", args.slot),
                                    "d_checkModifying"))
    /\ UNCHANGED others
    /\ UNCHANGED <<args, result, timeout, gres, act, rres>>

\* DefiningMessage_CheckModifying letting the status valid pass as well
DefiningMessage_CheckModifyingOrValid ==
    /\ pc = "d_checkModifying"
    /\ IF gres.err # "nil"
       THEN /\ Done(Err("get message status failed"))
            /\ hist' = [hist EXCEPT !.opErr = Snap]
            /\ result' = result
       ELSE /\ result' = gres.val
            /\ hist' = [hist EXCEPT
                          !.step2 = gres.val,
                          !.mismatch = IF gres.val # IntV(Modifying)
                                       THEN Snap ELSE @]
            /\ IF ~IsInt(gres.val) THEN Done(Panic)
               ELSE IF gres.val.v \notin {Modifying, Valid}
               THEN Done(Err("message status parameter returns wrong value"))
               ELSE pc' = "d_setContent" /\ outcome' = outcome
    /\ UNCHANGED others
    /\ UNCHANGED <<args, dev, ops, retries, sleeps, timeout, gso, gres, act,
                   rres>>

\* result, err := GetSingleOID(...); if result.Value.(int) != Modifying
DefiningMessage_CheckModifying ==
    /\ pc = "d_checkModifying"
    /\ IF gres.err # "nil"
       THEN /\ Done(Err("get message status failed"))
            /\ hist' = [hist EXCEPT !.opErr = Snap]
            /\ result' = result
       ELSE /\ result' = gres.val
            /\ hist' = [hist EXCEPT
                          !.step2 = gres.val,
                          !.mismatch = IF gres.val # IntV(Modifying)
                                       THEN Snap ELSE @]
            /\ IF ~IsInt(gres.val) THEN Done(Panic)
               ELSE IF gres.val.v # Modifying
               THEN Done(Err("message status parameter returns wrong value"))
               ELSE pc' = "d_setContent" /\ outcome' = outcome
    /\ UNCHANGED others
    /\ UNCHANGED <<args, dev, ops, retries, sleeps, timeout, gso, gres, act,
                   rres>>

\* one dms.Set of dmsMessageMultiString, dmsMessageOwner and
\* dmsMessageRunTimePriority
DefiningMessage_SetContent ==
    /\ pc = "d_setContent"
    /\ DefiningSet(Identifier("content", args.slot),
                   <<args.multi, args.owner, args.priority>>,
                   [multi |-> args.multi, owner |-> args.owner,
                    priority |-> args.priority],
                   "set mutiString failed",
                   pc' = "d_setBeacon" /\ gso' = gso)
    /\ UNCHANGED others
    /\ UNCHANGED <<args, result, timeout, gres, act, rres>>

DefiningMessage_SetBeacon ==
    /\ pc = "d_setBeacon"
    /\ DefiningSet(Identifier("dmsMessageBeacon", args.slot), args.beacon,
                   [beacon |-> args.beacon], "set beacon failed",
                   pc' = "d_setPixelService" /\ gso' = gso)
    /\ UNCHANGED others
    /\ UNCHANGED <<args, result, timeout, gres, act, rres>>

DefiningMessage_SetPixelService ==
    /\ pc = "d_setPixelService"
    /\ DefiningSet(Identifier("dmsMessagePixelService", args.slot),
                   args.pixel, [pixel |-> args.pixel],
                   "set pixel service failed",
                   pc' = "d_setValidateReq" /\ gso' = gso)
    /\ UNCHANGED others
    /\ UNCHANGED <<args, result, timeout, gres, act, rres>>

\* SET dmsMessageStatus.x.y to 'validateReq'; timeout := 10
DefiningMessage_SetValidateReq ==
    /\ pc = "d_setValidateReq"
    /\ DefiningSet(Identifier("dmsMessageStatus", args.slot), ValidateReq,
                   [status |-> ValidateReq], "set message status failed",
                   pc' = "d_pollCond" /\ gso' = gso)
    /\ timeout' = IF pc' = "d_pollCond" THEN PollBudget ELSE timeout
    /\ UNCHANGED others
    /\ UNCHANGED <<args, result, gres, act, rres>>

\* for result.Value.(int) != Valid { if timeout == 0 { goto ... }
\*   result, err = GetSingleOID(...)
DefiningMessage_PollCond ==
    /\ pc = "d_pollCond"
    /\ IF ~IsInt(result) THEN Done(Panic) /\ UNCHANGED <<gso, hist>>
       ELSE IF result.v = Valid THEN Done(Success) /\ UNCHANGED <<gso, hist>>
       ELSE IF timeout = 0 THEN Done(Err("TO-DO")) /\ UNCHANGED <<gso, hist>>
       ELSE /\ CallGetSingleOID(Identifier("dmsMessageStatus", args.slot),
                                "d_pollRead")
            /\ outcome' = outcome
            /\ hist' = [hist EXCEPT !.pollReads = @ + 1]
    /\ UNCHANGED others
    /\ UNCHANGED <<args, dev, ops, retries, sleeps, result, timeout, gres,
                   act, rres>>

\* DefiningMessage_PollRead with the error of the read not returned
DefiningMessage_PollReadSwallows ==
    /\ pc = "d_pollRead"
    /\ result' = gres.val
    /\ pc' = "d_pollSleep"
    /\ outcome' = outcome
    /\ hist' = IF gres.err # "nil"
               THEN [hist EXCEPT !.pollErr = Snap, !.opErr = Snap]
               ELSE [hist EXCEPT
                        !.pollValid = IF gres.val = IntV(Valid) /\ ~@.set
                                      THEN Snap ELSE @]
    /\ UNCHANGED others
    /\ UNCHANGED <<args, dev, ops, retries, sleeps, timeout, gso, gres, act,
                   rres>>

\*   if err != nil { return errors.Wrap(err, "get message status failed") }
DefiningMessage_PollRead ==
    /\ pc = "d_pollRead"
    /\ result' = gres.val
    /\ IF gres.err # "nil"
       THEN /\ Done(Err("get message status failed"))
            /\ hist' = [hist EXCEPT !.pollErr = Snap, !.opErr = Snap]
       ELSE /\ pc' = "d_pollSleep"
            /\ outcome' = outcome
            /\ hist' = [hist EXCEPT
                          !.pollValid = IF gres.val = IntV(Valid) /\ ~@.set
                                        THEN Snap ELSE @]
    /\ UNCHANGED others
    /\ UNCHANGED <<args, dev, ops, retries, sleeps, timeout, gso, gres, act,
                   rres>>

\* DefiningMessage_PollSleep without timeout--
DefiningMessage_PollSleepKeepsBudget ==
    /\ pc = "d_pollSleep"
    /\ sleeps' = sleeps + 1
    /\ timeout' = timeout
    /\ pc' = "d_pollCond"
    /\ UNCHANGED others
    /\ UNCHANGED <<args, dev, ops, retries, result, outcome, gso, gres, act,
                   rres, hist>>

\*   time.Sleep(1 * time.Second); timeout-- }
DefiningMessage_PollSleep ==
    /\ pc = "d_pollSleep"
    /\ sleeps' = sleeps + 1
    /\ timeout' = timeout - 1
    /\ pc' = "d_pollCond"
    /\ UNCHANGED others
    /\ UNCHANGED <<args, dev, ops, retries, result, outcome, gso, gres, act,
                   rres, hist>>

(* ------------------------- batched dms.Get --------------------------- *)
\* The variables one response may carry for the oids asked: at most as
\* many as were asked, each named as one of them or otherwise.
BatchVariables(oids) ==
    {[name |-> OtherOid, val |-> NilV]}
        \cup UNION {{[name |-> o, val |-> v] : v \in ReplyValues(o.obj)} :
                       o \in oids}

BatchReplies(oids) ==
    UNION {[1..n -> BatchVariables(oids)] : n \in 0..Cardinality(oids)}

Names(variables) == {variables[i].name : i \in 1..Len(variables)}

(* ------------------------- ActivatingMessage ------------------------- *)
ActivatingArgs ==
    {[dialog |-> "ActivatingMessage", slot |-> s, multi |-> 0, owner |-> 0,
      priority |-> p, beacon |-> 0, pixel |-> 0, duration |-> d] :
        s \in Slots, p \in {55, 256}, d \in {267, 65536}}

ActivatingOids(slot) ==
    {Identifier("dmsMessageMultiString", slot),
     Identifier("dmsMessageBeacon", slot),
     Identifier("dmsMessagePixelService", slot)}

\* for _, variable := range getResults.Variables { switch variable.Name
RECURSIVE ActivatingScan(_, _, _)
ActivatingScan(variables, i, loc) ==
    IF i > Len(variables) THEN [st |-> "ok"] @@ loc
    ELSE LET x == variables[i] IN
         IF x.name.obj = "dmsMessageMultiString"
         THEN IF IsBytes(x.val)
              THEN ActivatingScan(variables, i + 1,
                                  [loc EXCEPT !.multi = x.val.v])
              ELSE [st |-> "panic"] @@ loc
         ELSE IF x.name.obj = "dmsMessageBeacon"
         THEN IF IsInt(x.val)
              THEN ActivatingScan(variables, i + 1,
                                  [loc EXCEPT !.beacon = x.val.v])
              ELSE [st |-> "panic"] @@ loc
         ELSE IF x.name.obj = "dmsMessagePixelService"
         THEN IF IsInt(x.val)
              THEN ActivatingScan(variables, i + 1,
                                  [loc EXCEPT !.pixel = x.val.v])
              ELSE [st |-> "panic"] @@ loc
         ELSE [st |-> "err"] @@ loc

(* Strings are the sequences of their bytes. *)
FixtureText ==
    <<91, 106, 112, 51, 93, 84, 69, 83, 84, 32, 91, 102, 108, 93, 70, 108, 97,
    115, 104, 105, 110, 103, 91, 47, 102, 108, 93>>
Loopback == <<49, 50, 55, 46, 48, 46, 48, 46, 49>>
FixtureAddress == <<49, 48, 51, 46, 56, 46, 57, 46, 49, 48>>
TooBigAddress == <<50, 53, 54, 46, 48, 46, 48, 46, 49>>
ShortAddress == <<49, 46, 50, 46, 51>>

\* []byte(multiString) of the MULTI strings the model draws
MultiBytes(m) ==
    IF m = 1 THEN FixtureText
    ELSE IF m = 2 THEN <<84, 69, 83, 84>>
    ELSE <<>>

RECURSIVE Xor(_, _)
Xor(a, b) ==
    IF a = 0 THEN b
    ELSE IF b = 0 THEN a
    ELSE ((a + b) % 2) + 2 * Xor(a \div 2, b \div 2)

\* eight shifts of the CRC register, low bit first
RECURSIVE CrcShift(_, _)
CrcShift(c, n) ==
    IF n = 0 THEN c
    ELSE CrcShift(IF c % 2 = 1 THEN Xor(c \div 2, 33800) ELSE c \div 2,
                  n - 1)

RECURSIVE CrcBytes(_, _, _)
CrcBytes(c, s, i) ==
    IF c \notin 0..65535 \/ i > Len(s) THEN c
    ELSE CrcBytes(CrcShift(Xor(c, s[i]), 8), s, i + 1)

\* The 16-bit message CRC of the content: the one that yields 95 F9 for
\* the content of the test's case.
MessageCRC(content) == Xor(CrcBytes(65535, content, 1), 65535)

RECURSIVE SplitDots(_, _, _, _)
SplitDots(s, i, cur, acc) ==
    IF i > Len(s) THEN Append(acc, cur)
    ELSE IF s[i] = 46 THEN SplitDots(s, i + 1, <<>>, Append(acc, cur))
    ELSE SplitDots(s, i + 1, Append(cur, s[i]), acc)

RECURSIVE Atoi(_, _, _)
Atoi(s, i, n) ==
    IF i > Len(s) THEN n ELSE Atoi(s, i + 1, 10 * n + (s[i] - 48))

\* the requester address as four dotted-decimal octets
ParseIPv4(s) ==
    LET parts == SplitDots(s, 1, <<>>, <<>>)
        ok == /\ Len(parts) = 4
              /\ \A k \in 1..Len(parts) :
                    /\ Len(parts[k]) \in 1..3
                    /\ \A j \in 1..Len(parts[k]) : parts[k][j] \in 48..57
                    /\ Atoi(parts[k], 1, 0) <= 255
    IN IF ok
       THEN [err |-> FALSE,
             octets |-> [k \in 1..4 |-> Atoi(parts[k], 1, 0)]]
       ELSE [err |-> TRUE, octets |-> <<>>]

\* EncodeActivateMessageCode with the duration low byte first
EncodeActivateMessageCodeLowFirst(multi, beacon, pixel, mt, dur, prio, mn, addr) ==
    LET ip == ParseIPv4(addr)
        crc == MessageCRC(MultiBytes(multi) \o <<beacon % 256, pixel % 256>>)
    IN IF \/ ip.err
          \/ dur \notin 0..65535
          \/ prio \notin 0..255
          \/ mn \notin 0..65535
       THEN [run |-> TRUE, err |-> TRUE, code |-> <<>>]
       ELSE [run |-> TRUE, err |-> FALSE,
             code |-> <<dur % 256, dur \div 256, prio, mt % 256,
                        mn \div 256, mn % 256, crc % 256, crc \div 256>>
                      \o ip.octets]

\* The activation code of EncodeActivateMessageCode: twelve bytes, or an
\* encoding error when the address is malformed or a field exceeds its
\* width.
EncodeActivateMessageCode(multi, beacon, pixel, mt, dur, prio, mn, addr) ==
    LET ip == ParseIPv4(addr)
        crc == MessageCRC(MultiBytes(multi) \o <<beacon % 256, pixel % 256>>)
    IN IF \/ ip.err
          \/ dur \notin 0..65535
          \/ prio \notin 0..255
          \/ mn \notin 0..65535
       THEN [run |-> TRUE, err |-> TRUE, code |-> <<>>]
       ELSE [run |-> TRUE, err |-> FALSE,
             code |-> <<dur \div 256, dur % 256, prio, mt % 256,
                        mn \div 256, mn % 256, crc % 256, crc \div 256>>
                      \o ip.octets]

ActivatingMessage_Call ==
    /\ pc = "idle"
    /\ \E a \in ActivatingArgs : args' = a
    /\ pc' = "a_connect"
    /\ UNCHANGED others
    /\ UNCHANGED <<dev, ops, retries, sleeps, result, timeout, outcome, gso,
                   gres, act, rres, hist>>

ActivatingMessage_Connect ==
    /\ pc = "a_connect"
    /\ \E ok \in BOOLEAN :
          IF ok THEN pc' = "a_getBatch" /\ outcome' = outcome /\ hist' = hist
          ELSE Done(Err("connect")) /\ hist' = TErr(hist, "connect", FALSE, 0, 0)
    /\ UNCHANGED others
    /\ UNCHANGED <<args, dev, ops, retries, sleeps, result, timeout, gso,
                   gres, act, rres>>

\* getResults, err := dms.Get(...) and the loop over getResults.Variables
ActivatingMessage_GetBatch ==
    /\ pc = "a_getBatch"
    /\ ops' = Append(ops, GetOp(Identifier("batch", args.slot)))
    /\ \/ /\ Done(Err("get dms failed"))
          /\ hist' = TErr(hist, "batch", FALSE, 1, 0)
          /\ act' = act
       \/ \E variables \in BatchReplies(ActivatingOids(args.slot)) :
             LET scan == ActivatingScan(variables, 1, act) IN
             /\ hist' = [hist EXCEPT !.lacks =
                            ~(ActivatingOids(args.slot) \subseteq
                                  Names(variables))]
             /\ act' = [act EXCEPT !.multi = scan.multi,
                                   !.beacon = scan.beacon,
                                   !.pixel = scan.pixel]
             /\ IF scan.st = "panic" THEN Done(Panic)
                ELSE IF scan.st = "err" THEN Done(Err("no avaliable results"))
                ELSE pc' = "a_encode" /\ outcome' = outcome
    /\ UNCHANGED others
    /\ UNCHANGED <<args, dev, retries, sleeps, result, timeout, gso, gres,
                   rres>>

\* ActivatingMessage_Encode with the encoder's error left untested
ActivatingMessage_EncodeErrorIgnored ==
    /\ pc = "a_encode"
    /\ LET e == EncodeActivateMessageCode(act.multi, act.beacon, act.pixel,
                    args.slot[1], args.duration, args.priority, args.slot[2],
                    Loopback) IN
       /\ hist' = [hist EXCEPT !.encode = IF e.err THEN "err" ELSE "ok"]
       /\ act' = [act EXCEPT !.code = e.code, !.encoded = TRUE]
       /\ pc' = "a_set"
       /\ outcome' = outcome
    /\ UNCHANGED others
    /\ UNCHANGED <<args, dev, ops, retries, sleeps, result, timeout, gso,
                   gres, rres>>

\* activeMessageCode, err := EncodeActivateMessageCode(..., "127.0.0.1")
\* and ntcip.DmsActivateMessage.WriteIdentifier(activeMessageCode)
ActivatingMessage_Encode ==
    /\ pc = "a_encode"
    /\ LET e == EncodeActivateMessageCode(act.multi, act.beacon, act.pixel,
                    args.slot[1], args.duration, args.priority, args.slot[2],
                    Loopback) IN
       /\ hist' = [hist EXCEPT !.encode = IF e.err THEN "err" ELSE "ok"]
       /\ IF e.err
          THEN Done(Err("encode activate message failed")) /\ act' = act
          ELSE /\ act' = [act EXCEPT !.code = e.code, !.encoded = TRUE]
               /\ pc' = "a_set"
               /\ outcome' = outcome
    /\ UNCHANGED others
    /\ UNCHANGED <<args, dev, ops, retries, sleeps, result, timeout, gso,
                   gres, rres>>

\* SetBranch with the test of setResult.Error inverted
SetBranchInverted(reply) ==
    IF reply = "err" THEN "failed"
    ELSE IF reply # "NoError" THEN "shortErrorStatus"
    ELSE "diagnosis"

\* err != nil, setResult.Error == gosnmp.NoError, or else
SetBranch(reply) ==
    IF reply = "err" THEN "failed"
    ELSE IF reply = "NoError" THEN "shortErrorStatus"
    ELSE "diagnosis"

\* setResult, err := dms.Set([]gosnmp.SnmpPDU{activeMessagePDU})
ActivatingMessage_Set ==
    /\ pc = "a_set"
    /\ \E a \in SetAnswers :
          /\ ops' = Append(ops, SetOp(Identifier("dmsActivateMessage",
                                                 <<0, 0>>), 0))
          /\ dev' = IF a.applied THEN [dev EXCEPT !.activate = act.code]
                    ELSE dev
          /\ hist' = IF a.reply = "err"
                     THEN TErr([hist EXCEPT !.setReply = a.reply],
                               "dmsActivateMessage", FALSE, 1, 0)
                     ELSE [hist EXCEPT !.setReply = a.reply]
          /\ IF SetBranch(a.reply) = "failed"
             THEN Done(Err("dms set failed")) /\ gso' = gso
             ELSE IF SetBranch(a.reply) = "shortErrorStatus"
             THEN /\ CallGetSingleOID(Identifier("shortErrorStatus",
                                                 <<0, 0>>), "a_short")
                  /\ outcome' = outcome
             ELSE Done(Err("TO-DO")) /\ gso' = gso
    /\ UNCHANGED others
    /\ UNCHANGED <<args, retries, sleeps, result, timeout, gres, act, rres>>

\* ntcip.Format(ntcip.ShortErrorStatus, getResult.Value): an error, or the
\* list of the active error conditions
FormatResults ==
    {[err |-> TRUE, list |-> <<>>]}
        \cup {[err |-> FALSE, list |-> l] :
                 l \in {<<>>, <<"criticalTemperature">>,
                        <<"communications", "power">>}}

\* ShortErrorStatusReturn with the length test off by one
ShortErrorStatusReturnOffByOne(val, f) ==
    IF val # NilV
    THEN IF f.err THEN Err("format short error startus failed")
         ELSE IF Len(f.list) > 1
         THEN ErrList("activate message failed", f.list)
         ELSE Success
    ELSE Success

\* if getResult.Value != nil { ... len(formatResult.([]string)) != 0 ... }
ShortErrorStatusReturn(val, f) ==
    IF val # NilV
    THEN IF f.err THEN Err("format short error startus failed")
         ELSE IF Len(f.list) # 0
         THEN ErrList("activate message failed", f.list)
         ELSE Success
    ELSE Success

\* getResult, err := ntcip.GetSingleOID(dms, ShortErrorStatus.Identifier())
ActivatingMessage_ShortErrorStatus ==
    /\ pc = "a_short"
    /\ IF gres.err # "nil"
       THEN Done(Err("dms get next failed")) /\ hist' = hist
       ELSE \E f \in FormatResults :
               /\ Done(ShortErrorStatusReturn(gres.val, f))
               /\ hist' = [hist EXCEPT !.short =
                              IF gres.val # NilV /\ ~f.err
                              THEN [set |-> TRUE, list |-> f.list] ELSE @]
    /\ UNCHANGED others
    /\ UNCHANGED <<args, dev, ops, retries, sleeps, result, timeout, gso,
                   gres, act, rres>>

(* ------------------------- RetrievingMessage ------------------------- *)
RetrievingArgs ==
    {[dialog |-> "RetrievingMessage", slot |-> s, multi |-> 0, owner |-> 0,
      priority |-> 0, beacon |-> 0, pixel |-> 0, duration |-> 0] :
        s \in Slots}

RetrievingOids(slot) ==
    {Identifier("dmsMessageMultiString", slot),
     Identifier("dmsMessageOwner", slot),
     Identifier("dmsMessageRunTimePriority", slot),
     Identifier("dmsMessageStatus", slot)}

\* for _, variable := range getResults.Variables { switch variable.Name
RECURSIVE RetrievingScan(_, _, _)
RetrievingScan(variables, i, res) ==
    IF i > Len(variables) THEN [st |-> "ok"] @@ res
    ELSE LET x == variables[i] IN
         IF x.name.obj = "dmsMessageMultiString"
         THEN IF IsBytes(x.val)
              THEN RetrievingScan(variables, i + 1,
                                  [res EXCEPT !.multi = x.val.v])
              ELSE [st |-> "panic"] @@ res
         ELSE IF x.name.obj = "dmsMessageOwner"
         THEN IF IsBytes(x.val)
              THEN RetrievingScan(variables, i + 1,
                                  [res EXCEPT !.owner = x.val.v])
              ELSE [st |-> "panic"] @@ res
         ELSE IF x.name.obj = "dmsMessageRunTimePriority"
         THEN IF IsInt(x.val)
              THEN RetrievingScan(variables, i + 1,
                                  [res EXCEPT !.priority = x.val.v])
              ELSE [st |-> "panic"] @@ res
         ELSE IF x.name.obj = "dmsMessageStatus"
         THEN IF IsInt(x.val)
              THEN RetrievingScan(variables, i + 1,
                                  [res EXCEPT !.status = x.val.v])
              ELSE [st |-> "panic"] @@ res
         ELSE RetrievingScan(variables, i + 1, res)

RetrievingMessage_Call ==
    /\ pc = "idle"
    /\ \E a \in RetrievingArgs : args' = a
    /\ pc' = "r_connect"
    /\ UNCHANGED others
    /\ UNCHANGED <<dev, ops, retries, sleeps, result, timeout, outcome, gso,
                   gres, act, rres, hist>>

RetrievingMessage_Connect ==
    /\ pc = "r_connect"
    /\ \E ok \in BOOLEAN :
          IF ok THEN pc' = "r_getBatch" /\ outcome' = outcome /\ hist' = hist
          ELSE Done(Err("connect")) /\ hist' = TErr(hist, "connect", FALSE, 0, 0)
    /\ UNCHANGED others
    /\ UNCHANGED <<args, dev, ops, retries, sleeps, result, timeout, gso,
                   gres, act, rres>>

\* getResults, err := dms.Get(oids), the loop over getResults.Variables,
\* and the call of GetSingleOID for dmsMessageBeacon
RetrievingMessage_GetBatch ==
    /\ pc = "r_getBatch"
    /\ ops' = Append(ops, GetOp(Identifier("batch", args.slot)))
    /\ \/ /\ Done(Err("get dmsMessageMultiString failed"))
          /\ hist' = TErr(hist, "batch", FALSE, 1, 0)
          /\ UNCHANGED <<rres, gso>>
       \/ \E variables \in BatchReplies(RetrievingOids(args.slot)) :
             LET scan == RetrievingScan(variables, 1, rres) IN
             /\ rres' = [f \in DOMAIN rres |-> scan[f]]
             /\ IF scan.st = "panic"
                THEN Done(Panic) /\ UNCHANGED <<hist, gso>>
                ELSE /\ hist' = [hist EXCEPT !.batch = rres']
                     /\ outcome' = outcome
                     /\ CallGetSingleOID(
                            Identifier("dmsMessageBeacon", args.slot),
                            "r_beacon")
    /\ UNCHANGED others
    /\ UNCHANGED <<args, dev, retries, sleeps, result, timeout, gres, act>>

\* RetrievingErrTested with the optional read's own error tested
RetrievingErrTestedOwn(batchErr, readErr) == readErr

\* `if err != nil` after an optional read: err is still the batched read's
\* error, the optional read's own error having been assigned to _
RetrievingErrTested(batchErr, readErr) == batchErr

\* if _, ok := getResult.Value.(int); ok { result.X = getResult.Value.(int) }
OptionalInt(val, old) == IF IsInt(val) THEN val.v ELSE old

\* RetrievingMessage_Beacon writing the default back when the read gave no
\* integer
RetrievingMessage_BeaconWritesBack ==
    /\ pc = "r_beacon"
    /\ hist' = [hist EXCEPT !.beaconRead =
                   [set |-> TRUE, val |-> gres.val, err |-> gres.err]]
    /\ rres' = [rres EXCEPT !.beacon = IF IsInt(gres.val) THEN gres.val.v
                                       ELSE @]
    /\ ops' = IF IsInt(gres.val) THEN ops
              ELSE Append(ops, SetOp(Identifier("dmsMessageBeacon",
                                                args.slot), 0))
    /\ outcome' = outcome
    /\ CallGetSingleOID(Identifier("dmsMessagePixelService", args.slot),
                        "r_pixelService")
    /\ UNCHANGED others
    /\ UNCHANGED <<args, dev, retries, sleeps, result, timeout, gres, act>>

\* after GetSingleOID(dmsMessageBeacon): the check, the assignment, and the
\* call of GetSingleOID for dmsMessagePixelService
RetrievingMessage_Beacon ==
    /\ pc = "r_beacon"
    /\ hist' = [hist EXCEPT !.beaconRead =
                   [set |-> TRUE, val |-> gres.val, err |-> gres.err]]
    /\ IF RetrievingErrTested("nil", gres.err) # "nil"
       THEN Done(Err("get dmsMessageBeacon failed")) /\ UNCHANGED <<rres, gso>>
       ELSE /\ rres' = [rres EXCEPT !.beacon = OptionalInt(gres.val, @)]
            /\ outcome' = outcome
            /\ CallGetSingleOID(
                   Identifier("dmsMessagePixelService", args.slot),
                   "r_pixelService")
    /\ UNCHANGED others
    /\ UNCHANGED <<args, dev, ops, retries, sleeps, result, timeout, gres,
                   act>>

\* after GetSingleOID(dmsMessagePixelService): the check, the assignment,
\* and return
RetrievingMessage_PixelService ==
    /\ pc = "r_pixelService"
    /\ hist' = [hist EXCEPT !.pixelRead =
                   [set |-> TRUE, val |-> gres.val, err |-> gres.err]]
    /\ IF RetrievingErrTested("nil", gres.err) # "nil"
       THEN Done(Err("get dmsMessagePixelService failed")) /\ rres' = rres
       ELSE /\ rres' = [rres EXCEPT !.pixel = OptionalInt(gres.val, @)]
            /\ Done(Success)
    /\ UNCHANGED others
    /\ UNCHANGED <<args, dev, ops, retries, sleeps, result, timeout, gso,
                   gres, act>>

Next ==
    \/ GetSingleOID_Get
    \/ GetSingleOID_Retry
    \/ DefiningMessage_Call
    \/ DefiningMessage_Connect
    \/ DefiningMessage_SetModifyReq
    \/ DefiningMessage_CheckModifying
    \/ DefiningMessage_SetContent
    \/ DefiningMessage_SetBeacon
    \/ DefiningMessage_SetPixelService
    \/ DefiningMessage_SetValidateReq
    \/ DefiningMessage_PollCond
    \/ DefiningMessage_PollRead
    \/ DefiningMessage_PollSleep
    \/ ActivatingMessage_Call
    \/ ActivatingMessage_Connect
    \/ ActivatingMessage_GetBatch
    \/ ActivatingMessage_Encode
    \/ ActivatingMessage_Set
    \/ ActivatingMessage_ShortErrorStatus
    \/ RetrievingMessage_Call
    \/ RetrievingMessage_Connect
    \/ RetrievingMessage_GetBatch
    \/ RetrievingMessage_Beacon
    \/ RetrievingMessage_PixelService

Spec == Init /\ [][Next]_vars


(* ====================== properties of the dialogs ==================== *)
IsDefining == args.dialog = "DefiningMessage"
IsActivating == args.dialog = "ActivatingMessage"
IsRetrieving == args.dialog = "RetrievingMessage"
Returned == pc = "done"

\* C1: in DefiningMessage, once the status read after the modifyReq write
\* has returned a value other than modifying, the call has returned an
\* error and no request was issued after that read.
C1_MismatchReturnsError ==
    hist.mismatch.set =>
        /\ Returned
        /\ outcome.kind = "error"
        /\ Len(ops) = hist.mismatch.ops
        /\ retries = hist.mismatch.retries

\* C2: a DefiningMessage call that polled, never read valid and met no
\* read error has returned the "TO-DO" error after exactly PollBudget
\* status reads.
C2_TimeoutAfterBudget ==
    (Returned /\ IsDefining /\ hist.pollReads > 0
        /\ ~hist.pollValid.set /\ ~hist.pollErr.set) =>
            /\ outcome = Err("TO-DO")
            /\ hist.pollReads = PollBudget

\* C3: in ActivatingMessage, after a noError activation write, the call
\* returns nil when the formatted short error status is the empty list and
\* returns the "activate message failed" error carrying the list when it
\* is not empty.
C3_ShortErrorStatusDecides ==
    (hist.setReply = "NoError" /\ hist.short.set) =>
        /\ Returned
        /\ hist.short.list = <<>> => outcome = Success
        /\ hist.short.list # <<>> =>
               outcome = ErrList("activate message failed", hist.short.list)

C3_Witness ==
    /\ Returned
    /\ hist.setReply = "NoError"
    /\ hist.short.set
    /\ Len(hist.short.list) = 2
    /\ outcome.kind = "error"

\* C4: in ActivatingMessage, once the batched read's response lacks one of
\* the three fields asked, the call has returned the "no avaliable
\* results" error, has encoded nothing and has issued no write.
C4_MissingFieldIsProtocolError ==
    hist.lacks =>
        /\ Returned
        /\ outcome = Err("no avaliable results")
        /\ ~act.encoded
        /\ \A i \in 1..Len(ops) : ops[i].k # "Set"

\* C5: in ActivatingMessage, an activation write answered with an error
\* status makes the call return the "TO-DO" error without reading the
\* short error status, and the call returns that error in no other case.
C5_DiagnosisPlaceholder ==
    IsActivating =>
        /\ hist.setReply = "GenErr" =>
              /\ Returned
              /\ outcome = Err("TO-DO")
              /\ \A i \in 1..Len(ops) : ops[i].obj # "shortErrorStatus"
        /\ outcome.msg = "TO-DO" => hist.setReply = "GenErr"
        /\ outcome = Success => hist.setReply = "NoError"

C5_Witness ==
    IsActivating /\ Returned /\ hist.setReply = "GenErr"

BadOptional(r) == r.set /\ (r.err # "nil" \/ ~IsInt(r.val))

\* C6: in RetrievingMessage, once the batch is read, a beacon or pixel
\* service read that ends in an error, an empty value or a value that is
\* no integer leaves its field 0, the four batch fields keep the values
\* read, and the call returns nil.
C6_OptionalReadsDegrade ==
    (IsRetrieving /\ hist.beaconRead.set) =>
        /\ outcome.kind \in {"none", "nil"}
        /\ BadOptional(hist.beaconRead) => rres.beacon = 0
        /\ BadOptional(hist.pixelRead) => rres.pixel = 0
        /\ hist.pixelRead.set => Returned /\ outcome = Success
        /\ \A f \in {"multi", "owner", "priority", "status"} :
               rres[f] = hist.batch[f]

C6_Witness ==
    /\ IsRetrieving /\ Returned
    /\ hist.beaconRead.err = "transport"
    /\ hist.pixelRead.set /\ hist.pixelRead.val = BytesV(1)
    /\ hist.batch.multi = 2 /\ hist.batch.priority = 1

\* C7: RetrievingMessage issues no write request and leaves the
\* controller's message table as it was, on every path.
C7_RetrievingNeverWrites ==
    IsRetrieving =>
        /\ dev = DevInit
        /\ \A i \in 1..Len(ops) : ops[i].k = "Get"

C7_Witness ==
    IsRetrieving /\ Returned /\ outcome.kind = "error" /\ Len(ops) = 1

\* C8: in the status poll of DefiningMessage, a read that ends in an error
\* makes the call return "get message status failed" with no request, no
\* retry and no sleep after it, the attempt not counted off the budget.
C8_PollErrorReturnsAtOnce ==
    hist.pollErr.set =>
        /\ Returned
        /\ outcome = Err("get message status failed")
        /\ Len(ops) = hist.pollErr.ops
        /\ retries = hist.pollErr.retries
        /\ sleeps = hist.pollErr.sleeps
        /\ timeout = PollBudget - (hist.pollReads - 1)

C8_Witness ==
    hist.pollErr.set /\ hist.pollReads = 3 /\ timeout = 8 /\ retries > 0

\* C9: a DefiningMessage call that returned nil did so right after the
\* poll read that returned valid: no request, no retry and no sleep lies
\* between that read and the return.
C9_SuccessAtOnce ==
    (IsDefining /\ Returned /\ outcome = Success) =>
        /\ hist.pollValid.set
        /\ Len(ops) = hist.pollValid.ops
        /\ retries = hist.pollValid.retries
        /\ sleeps = hist.pollValid.sleeps

\* the order of DefiningMessage's requests before the poll
DefiningOrder ==
    <<SetOp(Identifier("dmsMessageStatus", args.slot), ModifyReq),
      GetOp(Identifier("dmsMessageStatus", args.slot)),
      SetOp(Identifier("content", args.slot),
            <<args.multi, args.owner, args.priority>>),
      SetOp(Identifier("dmsMessageBeacon", args.slot), args.beacon),
      SetOp(Identifier("dmsMessagePixelService", args.slot), args.pixel),
      SetOp(Identifier("dmsMessageStatus", args.slot), ValidateReq)>>

AfterRead == {"d_checkModifying", "d_pollRead", "a_short", "r_beacon",
              "r_pixelService"}

SingleGets == {i \in 1..Len(ops) : ops[i].k = "Get" /\ ops[i].obj # "batch"}

\* C11 (as amended): a Connect, read or write that ends in a transport
\* error is not issued again and, unless it is one of the two optional
\* reads of RetrievingMessage, no request at all follows it and the call
\* returns an error; after an optional read's error the call still returns
\* nil.  A read is repeated only by the status poll and by GetSingleOID,
\* which asks once more when its first answer carried an empty value.
C11_ErrorsPropagateRetryOnEmpty ==
    /\ hist.terr.set =>
          /\ \A i \in (hist.terr.ops + 1)..Len(ops) :
                ops[i].obj # hist.terr.obj
          /\ ~hist.terr.optional =>
                /\ pc \in {"done"} \cup AfterRead
                /\ Returned => outcome.kind = "error"
                /\ Len(ops) = hist.terr.ops
                /\ retries = hist.terr.retries
          /\ (hist.terr.optional /\ Returned) => outcome = Success
    /\ pc = "gso_retry" => hist.first = "nil"
    /\ retries <= Cardinality(SingleGets)

C11_Witness ==
    /\ IsRetrieving /\ Returned
    /\ hist.terr.set /\ hist.terr.optional
    /\ hist.terr.obj = "dmsMessageBeacon"
    /\ retries = 2

\* C11 (as claimed): the above, and no read is repeated outside the status
\* poll.
C11_OnlyThePollRepeats ==
    /\ C11_ErrorsPropagateRetryOnEmpty
    /\ hist.pollReads = 0 => retries = 0


(* ------------------- TestEncodeActivateMessageCode ------------------- *)
TestCases ==
    [multiString : {1, 2}, beacon : 0..1, pixelService : 0..1,
     messageType : {3, 4}, duration : {267, 65535, 65536},
     priority : {55, 256}, messageNumber : {5, 261, 65536},
     requestIPAddress : {FixtureAddress, Loopback, TooBigAddress,
                         ShortAddress}]

\* the case test_1 and its want, 010B3704000595F96708090A
Fixture ==
    [multiString |-> 1, beacon |-> 0, pixelService |-> 0, messageType |-> 4,
     duration |-> 267, priority |-> 55, messageNumber |-> 5,
     requestIPAddress |-> FixtureAddress]
Want == <<1, 11, 55, 4, 0, 5, 149, 249, 103, 8, 9, 10>>

CodecInit ==
    /\ NoCall
    /\ tt \in TestCases
    /\ got = NotRun
    /\ calls = NoCalls
    /\ table = [s \in Slots |-> EmptyMessage]

\* got, err := EncodeActivateMessageCode(tt.args. ...)
TestEncodeActivateMessageCode_Run ==
    /\ ~got.run
    /\ got' = EncodeActivateMessageCode(tt.multiString, tt.beacon,
                  tt.pixelService, tt.messageType, tt.duration, tt.priority,
                  tt.messageNumber, tt.requestIPAddress)
    /\ UNCHANGED <<single, tt, calls, table>>

CodecNext == TestEncodeActivateMessageCode_Run

CodecSpec == CodecInit /\ [][CodecNext]_vars

\* C12: in ActivatingMessage an encoding error is fatal and comes before
\* any write: once the encoder has failed, the call has returned the
\* encoding error and no Set request was issued; and a Set request is only
\* ever issued with a code the encoder produced without error.
C12_EncodeErrorBeforeAnyWrite ==
    /\ hist.encode = "err" =>
          /\ Returned
          /\ outcome = Err("encode activate message failed")
          /\ \A i \in 1..Len(ops) : ops[i].k # "Set"
    /\ (IsActivating /\ \E i \in 1..Len(ops) : ops[i].k = "Set") =>
          /\ hist.encode = "ok"
          /\ Len(act.code) = 12

C12_Witness ==
    /\ IsActivating /\ Returned
    /\ hist.encode = "err"
    /\ args.priority = 256
    /\ Len(ops) = 1

\* a decimal number as its digits
RECURSIVE Itoa(_)
Itoa(n) == IF n < 10 THEN <<48 + n>> ELSE Append(Itoa(n \div 10), 48 + (n % 10))

DottedDecimal(o) ==
    Itoa(o[1]) \o <<46>> \o Itoa(o[2]) \o <<46>> \o Itoa(o[3]) \o <<46>>
        \o Itoa(o[4])

ValidCase(t) ==
    /\ t.duration \in 0..65535
    /\ t.priority \in 0..255
    /\ t.messageNumber \in 0..65535
    /\ t.requestIPAddress \in {FixtureAddress, Loopback}

\* C16: for every valid input EncodeActivateMessageCode returns, without
\* error, exactly 12 bytes: 0-1 the duration high byte first, 2 the
\* priority, 3 the memory type, 4-5 the message number high byte first,
\* 6-7 the checksum of the MULTI text with the beacon and pixel-service
\* flags, 8-11 the octets of the requester address in order; each
\* non-checksum byte is a function of its own field, and the test's case
\* yields the bytes the test wants.
C16_TwelveByteLayout ==
    (got.run /\ ValidCase(tt)) =>
        /\ ~got.err
        /\ Len(got.code) = 12
        /\ \A k \in 1..Len(got.code) : got.code[k] \in 0..255
        /\ 256 * got.code[1] + got.code[2] = tt.duration
        /\ got.code[3] = tt.priority
        /\ got.code[4] = tt.messageType
        /\ 256 * got.code[5] + got.code[6] = tt.messageNumber
        /\ got.code[7] + 256 * got.code[8] =
              MessageCRC(MultiBytes(tt.multiString)
                             \o <<tt.beacon, tt.pixelService>>)
        /\ DottedDecimal(SubSeq(got.code, 9, 12)) = tt.requestIPAddress
        /\ tt = Fixture => got.code = Want

C16_Witness ==
    /\ got.run /\ ~got.err
    /\ tt = Fixture
    /\ got.code = Want


\* the objects that are not indexed by a message slot
Scalars == {"dmsActivateMessage", "shortErrorStatus"}

\* C13: every slot-indexed request of a call carries the (memoryType,
\* messageNumber) pair the call was given, the only other requests are
\* those for the scalars dmsActivateMessage.0 and shortErrorStatus.0, and
\* no other slot of the controller's table is written.
C13_OneSlotPerCall ==
    /\ \A i \in 1..Len(ops) :
          IF ops[i].obj \in Scalars THEN ops[i].slot = <<0, 0>>
          ELSE ops[i].slot = args.slot
    /\ \A s \in Slots \ {args.slot} : dev.table[s] = EmptyMessage

C13_Witness ==
    /\ IsDefining /\ Returned /\ outcome = Success
    /\ args.slot = <<3, 2>>
    /\ dev.table[<<3, 2>>] # EmptyMessage
    /\ Len(ops) > 6


Sets == {i \in 1..Len(ops) : ops[i].k = "Set"}

\* the positions at which a call has a step to take
Steps ==
    {"idle", "gso_get", "gso_retry", "d_connect", "d_setModifyReq",
     "d_checkModifying", "d_setContent", "d_setBeacon", "d_setPixelService",
     "d_setValidateReq", "d_pollCond", "d_pollRead", "d_pollSleep",
     "a_connect", "a_getBatch", "a_encode", "a_set", "a_short", "r_connect",
     "r_getBatch", "r_beacon", "r_pixelService"}

\* the steps a call has at most left to take, by its position
Measure ==
    LET poll == 5 * timeout
        top == 5 * PollBudget + 6
        read == IF gso.ret = "d_checkModifying" THEN top + 6
                ELSE IF gso.ret = "d_pollRead" THEN poll + 4
                ELSE IF gso.ret = "a_short" THEN 6
                ELSE IF gso.ret = "r_beacon" THEN 8
                ELSE 5
    IN CASE pc = "idle" -> top + 10
         [] pc = "d_connect" -> top + 9
         [] pc = "d_setModifyReq" -> top + 8
         [] pc = "gso_get" -> read
         [] pc = "gso_retry" -> read - 1
         [] pc = "d_checkModifying" -> top + 4
         [] pc = "d_setContent" -> top + 3
         [] pc = "d_setBeacon" -> top + 2
         [] pc = "d_setPixelService" -> top + 1
         [] pc = "d_setValidateReq" -> top
         [] pc = "d_pollCond" -> poll + 5
         [] pc = "d_pollRead" -> poll + 2
         [] pc = "d_pollSleep" -> poll + 1
         [] pc \in {"a_connect", "r_connect"} -> 10
         [] pc \in {"a_getBatch", "r_getBatch"} -> 9
         [] pc = "a_encode" -> 8
         [] pc = "a_set" -> 7
         [] pc = "a_short" -> 4
         [] pc = "r_beacon" -> 6
         [] pc = "r_pixelService" -> 3
         [] OTHER -> 0

\* C17: every call is a bounded state machine: whatever the controller and
\* the transport answer, each step of a call lowers a measure that is
\* never negative and a call that has not returned stands at one of its
\* steps, so every call terminates; DefiningMessage issues at most 5 write
\* requests and makes at most 10 poll iterations, ActivatingMessage issues
\* at most 1 write request.
C17_BoundedDialogs ==
    /\ [](/\ Measure >= 0
          /\ pc # "done" => pc \in Steps
          /\ IsDefining => /\ Cardinality(Sets) <= 5
                           /\ hist.pollReads <= 10
                           /\ sleeps <= 10
          /\ IsActivating => Cardinality(Sets) <= 1)
    /\ [][Measure' < Measure]_vars

C17_Witness ==
    /\ IsDefining /\ Returned
    /\ Cardinality(Sets) = 5
    /\ hist.pollReads = 10
    /\ sleeps = 10


PollReadInFlight ==
    /\ IsDefining
    /\ pc \in {"gso_get", "gso_retry"}
    /\ gso.ret = "d_pollRead"

\* C18: a poll read that returns a status other than validating (3) ends
\* the polling: a status read that follows a poll read is only ever issued
\* after that poll read returned validating.
C18_PollEndsOnNotValidating ==
    (PollReadInFlight /\ hist.pollReads > 1) => result = IntV(3)

\* C19: DefiningMessage returns nil only after a status read issued after
\* the validateReq write returned valid: the poll is entered with the
\* value modifying of the first status read, so at least one status read
\* follows validateReq, and the modifyReq, content, beacon, pixel-service
\* and validateReq writes have all been issued before it.
C19_SuccessNeedsFreshValid ==
    IsDefining =>
        /\ (pc = "d_pollCond" /\ hist.pollReads = 0) =>
              result = IntV(Modifying)
        /\ outcome = Success =>
              /\ hist.pollReads >= 1
              /\ result = IntV(Valid)
              /\ hist.pollValid.set
              /\ hist.pollValid.ops = Len(ops)
              /\ Len(ops) > Len(DefiningOrder)
              /\ SubSeq(ops, 1, Len(DefiningOrder)) = DefiningOrder
              /\ ops[Len(ops)] = GetOp(Identifier("dmsMessageStatus",
                                                  args.slot))
              /\ Cardinality(Sets) = 5

C19_Witness ==
    /\ IsDefining /\ outcome = Success
    /\ hist.pollReads = 1
    /\ Len(ops) = Len(DefiningOrder) + 1

\* where DefiningMessage stands after each of its writes, until its next
\* request
AfterSet(op) ==
    IF op.obj = "dmsMessageStatus"
    THEN IF op.val = ModifyReq THEN {"gso_get"} ELSE {"d_pollCond", "gso_get"}
    ELSE IF op.obj = "content" THEN {"d_setBeacon"}
    ELSE IF op.obj = "dmsMessageBeacon" THEN {"d_setPixelService"}
    ELSE {"d_setValidateReq"}

SetFailures ==
    {"set message status failed", "set mutiString failed",
     "set beacon failed", "set pixel service failed"}

\* C20: in DefiningMessage only a transport error of a write ends the
\* call: right after a write whose response carries an error status the
\* call stands at its next step with nothing returned, and a "set ...
\* failed" error is returned only after a transport error; in
\* ActivatingMessage a response with an error status ends the call with
\* the placeholder error.
C20_ResponseStatusIgnored ==
    /\ (IsDefining /\ Len(ops) > 0 /\ ops[Len(ops)].k = "Set") =>
          IF hist.setReply = "err"
          THEN Returned /\ outcome.msg \in SetFailures
          ELSE pc \in AfterSet(ops[Len(ops)]) /\ outcome = NoOutcome
    /\ (IsDefining /\ outcome.msg \in SetFailures) => hist.setReply = "err"
    /\ (IsActivating /\ hist.setReply = "GenErr") =>
          Returned /\ outcome = Err("TO-DO")

C20_Witness ==
    /\ IsDefining /\ outcome = Success
    /\ hist.setReply = "GenErr"
    /\ dev.table[args.slot] = EmptyMessage


(* ============ two calls at once, one request at a time ============== *)
\* The controller's side of the procedure the calls follow: a modifyReq
\* puts the message into modifying unless it is being validated, the
\* message can be written while it is modifying, and a validateReq on a
\* modifying message starts the consistency check (3, validating), which
\* ends in valid or in an error (5).  A request the controller does not
\* accept leaves the table as it is.

\* DeviceSetStatus with one status for the whole table
DeviceSetStatusEverySlot(t, slot, req) ==
    IF req = ModifyReq /\ t[slot].status # 3
    THEN [s \in Slots |-> [t[s] EXCEPT !.status = Modifying]]
    ELSE IF req = ValidateReq /\ t[slot].status = Modifying
    THEN [s \in Slots |-> [t[s] EXCEPT !.status = 3]]
    ELSE t

\* SET dmsMessageStatus.x.y to modifyReq or validateReq
DeviceSetStatus(t, slot, req) ==
    IF req = ModifyReq /\ t[slot].status # 3
    THEN [t EXCEPT ![slot].status = Modifying]
    ELSE IF req = ValidateReq /\ t[slot].status = Modifying
    THEN [t EXCEPT ![slot].status = 3]
    ELSE t

\* SET of the message's content
DeviceSetFields(t, slot, fields) ==
    IF t[slot].status = Modifying
    THEN [t EXCEPT ![slot] = fields @@ @]
    ELSE t

\* the consistency check of a message comes to its end
Controller_Validate ==
    /\ \E s \in Slots :
          /\ table[s].status = 3
          /\ \E v \in {Valid, 5} : table' = [table EXCEPT ![s].status = v]
    /\ UNCHANGED <<single, tt, got, calls>>

ConcArgs(p, d, s) ==
    [dialog |-> d, slot |-> s, multi |-> p, owner |-> p, priority |-> p,
     beacon |-> p, pixel |-> p, duration |-> 0]

CallStarts(p) ==
    {[dialog |-> d,
      pc |-> IF d = "DefiningMessage" THEN "d_connect" ELSE "r_connect",
      args |-> ConcArgs(p, d, s), result |-> 0, timeout |-> 0,
      outcome |-> NoOutcome, rres |-> NoResult] :
        d \in {"DefiningMessage", "RetrievingMessage"}, s \in Slots}

ConcInit ==
    /\ NoCall
    /\ tt = NoTest
    /\ got = NotRun
    /\ calls \in {[p \in Procs |-> IF p = 1 THEN a ELSE b] :
                     a \in CallStarts(1), b \in CallStarts(2)}
    /\ table = [s \in Slots |-> EmptyMessage]

At(p, where) == calls[p].pc = where
Goes(p, where) == [calls EXCEPT ![p].pc = where]
Returns(p, o) == [calls EXCEPT ![p].pc = "done", ![p].outcome = o]

\* if err := dms.Connect(); err != nil { return err }
Conc_DefiningMessage_Connect(p) ==
    /\ At(p, "d_connect")
    /\ \E ok \in BOOLEAN :
          calls' = IF ok THEN Goes(p, "d_setModifyReq")
                   ELSE Returns(p, Err("connect"))
    /\ UNCHANGED <<single, tt, got, table>>

\* Conc_DefiningMessage_SetModifyReq waiting for the slot to be free
Conc_DefiningMessage_SetModifyReqLocked(p) ==
    /\ At(p, "d_setModifyReq")
    /\ \A q \in Procs \ {p} :
          calls[q].args.slot = calls[p].args.slot =>
              calls[q].pc \in {"d_connect", "d_setModifyReq", "r_connect",
                               "done"}
    /\ \E ok \in BOOLEAN :
          IF ok
          THEN /\ table' = DeviceSetStatus(table, calls[p].args.slot,
                                           ModifyReq)
               /\ calls' = Goes(p, "d_getStatus")
          ELSE /\ table' = table
               /\ calls' = Returns(p, Err("set message status failed"))
    /\ UNCHANGED <<single, tt, got>>

\* SET dmsMessageStatus.x.y to 'modifyReq'
Conc_DefiningMessage_SetModifyReq(p) ==
    /\ At(p, "d_setModifyReq")
    /\ \E ok \in BOOLEAN :
          IF ok
          THEN /\ table' = DeviceSetStatus(table, calls[p].args.slot,
                                           ModifyReq)
               /\ calls' = Goes(p, "d_getStatus")
          ELSE /\ table' = table
               /\ calls' = Returns(p, Err("set message status failed"))
    /\ UNCHANGED <<single, tt, got>>

\* GET dmsMessageStatus.x.y and exit if the value is not 'modifying'
Conc_DefiningMessage_CheckModifying(p) ==
    /\ At(p, "d_getStatus")
    /\ \E ok \in BOOLEAN :
          LET v == table[calls[p].args.slot].status IN
          calls' = IF ~ok THEN Returns(p, Err("get message status failed"))
                   ELSE IF v # Modifying
                   THEN [Returns(p, Err(
                            "message status parameter returns wrong value"))
                            EXCEPT ![p].result = v]
                   ELSE [Goes(p, "d_setContent") EXCEPT ![p].result = v]
    /\ UNCHANGED <<single, tt, got, table>>

\* one dms.Set of DefiningMessage for the message's content
ConcDefiningSet(p, fields, errmsg, next) ==
    /\ \E ok \in BOOLEAN :
          IF ok
          THEN /\ table' = DeviceSetFields(table, calls[p].args.slot, fields)
               /\ calls' = Goes(p, next)
          ELSE /\ table' = table
               /\ calls' = Returns(p, Err(errmsg))
    /\ UNCHANGED <<single, tt, got>>

Conc_DefiningMessage_SetContent(p) ==
    /\ At(p, "d_setContent")
    /\ ConcDefiningSet(p, [multi |-> calls[p].args.multi,
                           owner |-> calls[p].args.owner,
                           priority |-> calls[p].args.priority],
                       "set mutiString failed", "d_setBeacon")

Conc_DefiningMessage_SetBeacon(p) ==
    /\ At(p, "d_setBeacon")
    /\ ConcDefiningSet(p, [beacon |-> calls[p].args.beacon],
                       "set beacon failed", "d_setPixelService")

Conc_DefiningMessage_SetPixelService(p) ==
    /\ At(p, "d_setPixelService")
    /\ ConcDefiningSet(p, [pixel |-> calls[p].args.pixel],
                       "set pixel service failed", "d_setValidateReq")

\* SET dmsMessageStatus.x.y to 'validateReq'; timeout := 10
Conc_DefiningMessage_SetValidateReq(p) ==
    /\ At(p, "d_setValidateReq")
    /\ \E ok \in BOOLEAN :
          IF ok
          THEN /\ table' = DeviceSetStatus(table, calls[p].args.slot,
                                           ValidateReq)
               /\ calls' = [Goes(p, "d_poll") EXCEPT
                               ![p].timeout = PollBudget]
          ELSE /\ table' = table
               /\ calls' = Returns(p, Err("set message status failed"))
    /\ UNCHANGED <<single, tt, got>>

\* one turn of `for result.Value.(int) != ntcip.Valid.Int() { ... }`
Conc_DefiningMessage_Poll(p) ==
    /\ At(p, "d_poll")
    /\ IF calls[p].result = Valid THEN calls' = Returns(p, Success)
       ELSE IF calls[p].timeout = 0 THEN calls' = Returns(p, Err("TO-DO"))
       ELSE \E ok \in BOOLEAN :
               calls' = IF ok
                        THEN [calls EXCEPT
                                 ![p].result =
                                     table[calls[p].args.slot].status,
                                 ![p].timeout = @ - 1]
                        ELSE Returns(p, Err("get message status failed"))
    /\ UNCHANGED <<single, tt, got, table>>

Conc_RetrievingMessage_Connect(p) ==
    /\ At(p, "r_connect")
    /\ \E ok \in BOOLEAN :
          calls' = IF ok THEN Goes(p, "r_getBatch")
                   ELSE Returns(p, Err("connect"))
    /\ UNCHANGED <<single, tt, got, table>>

\* the batched dms.Get of multi string, owner, priority and status
Conc_RetrievingMessage_GetBatch(p) ==
    /\ At(p, "r_getBatch")
    /\ \E ok \in BOOLEAN :
          LET m == table[calls[p].args.slot] IN
          calls' = IF ok
                   THEN [Goes(p, "r_beacon") EXCEPT
                            ![p].rres = [multi |-> m.multi,
                                         owner |-> m.owner,
                                         priority |-> m.priority,
                                         status |-> m.status,
                                         beacon |-> 0, pixel |-> 0]]
                   ELSE Returns(p, Err("get dmsMessageMultiString failed"))
    /\ UNCHANGED <<single, tt, got, table>>

\* getResult, _ := GetSingleOID(dms, DmsMessageBeacon.Identifier(...))
Conc_RetrievingMessage_Beacon(p) ==
    /\ At(p, "r_beacon")
    /\ \E ok \in BOOLEAN :
          calls' = IF ok
                   THEN [Goes(p, "r_pixelService") EXCEPT
                            ![p].rres.beacon =
                                table[calls[p].args.slot].beacon]
                   ELSE Goes(p, "r_pixelService")
    /\ UNCHANGED <<single, tt, got, table>>

\* getResult, _ = GetSingleOID(dms, DmsMessagePixelService.Identifier(...))
Conc_RetrievingMessage_PixelService(p) ==
    /\ At(p, "r_pixelService")
    /\ \E ok \in BOOLEAN :
          calls' = IF ok
                   THEN [Returns(p, Success) EXCEPT
                            ![p].rres.pixel =
                                table[calls[p].args.slot].pixel]
                   ELSE Returns(p, Success)
    /\ UNCHANGED <<single, tt, got, table>>

\* the next request of call p
ConcStep(p) ==
    \/ Conc_DefiningMessage_Connect(p)
    \/ Conc_DefiningMessage_SetModifyReq(p)
    \/ Conc_DefiningMessage_CheckModifying(p)
    \/ Conc_DefiningMessage_SetContent(p)
    \/ Conc_DefiningMessage_SetBeacon(p)
    \/ Conc_DefiningMessage_SetPixelService(p)
    \/ Conc_DefiningMessage_SetValidateReq(p)
    \/ Conc_DefiningMessage_Poll(p)
    \/ Conc_RetrievingMessage_Connect(p)
    \/ Conc_RetrievingMessage_GetBatch(p)
    \/ Conc_RetrievingMessage_Beacon(p)
    \/ Conc_RetrievingMessage_PixelService(p)

ConcNext ==
    \/ \E p \in Procs : Conc_DefiningMessage_Connect(p)
    \/ \E p \in Procs : Conc_DefiningMessage_SetModifyReq(p)
    \/ \E p \in Procs : Conc_DefiningMessage_CheckModifying(p)
    \/ \E p \in Procs : Conc_DefiningMessage_SetContent(p)
    \/ \E p \in Procs : Conc_DefiningMessage_SetBeacon(p)
    \/ \E p \in Procs : Conc_DefiningMessage_SetPixelService(p)
    \/ \E p \in Procs : Conc_DefiningMessage_SetValidateReq(p)
    \/ \E p \in Procs : Conc_DefiningMessage_Poll(p)
    \/ \E p \in Procs : Conc_RetrievingMessage_Connect(p)
    \/ \E p \in Procs : Conc_RetrievingMessage_GetBatch(p)
    \/ \E p \in Procs : Conc_RetrievingMessage_Beacon(p)
    \/ \E p \in Procs : Conc_RetrievingMessage_PixelService(p)
    \/ Controller_Validate

ConcSpec == ConcInit /\ [][ConcNext]_vars

ConcDefining(p) == calls[p].dialog = "DefiningMessage"
SameSlot == calls[1].args.slot = calls[2].args.slot

\* C14: two calls on one slot are not coordinated: a call that has not
\* returned can always make its next request, whatever the other call is
\* doing to the slot, and DefiningMessage returns nil on no other ground
\* than having read the status valid.
C14_NotCoordinated ==
    \A p \in Procs :
        /\ calls[p].pc # "done" => ENABLED ConcStep(p)
        /\ (ConcDefining(p) /\ calls[p].outcome = Success) =>
              calls[p].result = Valid

\* one DefiningMessage call has returned nil, and the message validated in
\* its slot is the one the other call wrote
C14_Witness ==
    \E p \in Procs : \E q \in Procs \ {p} :
        /\ SameSlot
        /\ ConcDefining(p) /\ ConcDefining(q)
        /\ calls[p].outcome = Success
        /\ table[calls[p].args.slot].status = Valid
        /\ table[calls[p].args.slot].multi = calls[q].args.multi
        /\ table[calls[p].args.slot].multi # calls[p].args.multi

\* the message slot after the first k writes of DefiningMessage
Written(a, k) ==
    [status |-> IF k = 0 THEN EmptyMessage.status
                ELSE IF k < 5 THEN Modifying ELSE 3,
     multi |-> IF k >= 2 THEN a.multi ELSE EmptyMessage.multi,
     owner |-> IF k >= 2 THEN a.owner ELSE EmptyMessage.owner,
     priority |-> IF k >= 2 THEN a.priority ELSE EmptyMessage.priority,
     beacon |-> IF k >= 3 THEN a.beacon ELSE EmptyMessage.beacon,
     pixel |-> IF k >= 4 THEN a.pixel ELSE EmptyMessage.pixel]

\* the states of its slot a call running on its own can be in
Alone(c) ==
    LET checked == {[Written(c.args, 5) EXCEPT !.status = v] :
                       v \in {3, Valid, 5}}
    IN IF c.dialog = "RetrievingMessage" THEN {EmptyMessage}
       ELSE IF c.pc \in {"d_connect", "d_setModifyReq"}
       THEN {Written(c.args, 0)}
       ELSE IF c.pc \in {"d_getStatus", "d_setContent"}
       THEN {Written(c.args, 1)}
       ELSE IF c.pc = "d_setBeacon" THEN {Written(c.args, 2)}
       ELSE IF c.pc = "d_setPixelService" THEN {Written(c.args, 3)}
       ELSE IF c.pc = "d_setValidateReq" THEN {Written(c.args, 4)}
       ELSE IF c.pc = "d_poll" THEN checked
       ELSE IF c.outcome = Success
       THEN {[Written(c.args, 5) EXCEPT !.status = Valid]}
       ELSE {Written(c.args, k) : k \in 0..4} \cup checked

\* a request of one call leaves the other call and the other call's slot
\* as they are
NonInterference ==
    \A p \in Procs : \A q \in Procs \ {p} :
        (calls[p].args.slot # calls[q].args.slot /\ calls'[q] # calls[q])
            => /\ calls'[p] = calls[p]
               /\ table'[calls[p].args.slot] = table[calls[p].args.slot]

=============================================================================
